---- MODULE Spec2Model ----
(***************************************************************************)
(* Verification model of the scraping service:                             *)
(*   - the persistence layer   (scripts/db_importer.py),                   *)
(*   - the job queue and worker supervisor (app/routes/scrape.py),         *)
(*   - the page scrape of the browser layer (scripts/scraper.py,           *)
(*     scripts/run_batch.py).                                              *)
(* Each layer has its own specification over the shared variable tuple.   *)
(***************************************************************************)
EXTENDS Integers, Sequences, FiniteSets, TLC

\* A key that is missing from a Python dict / a JSON object.
Absent == "absent"
\* Python None, JSON null, SQL NULL.
Null == "null"

VARIABLES
  db,        \* the committed content of the relational store
  call,      \* what the last process_input call returned ("none" before the first)
  pre,       \* the store as it was when the last failed process_input started
  jobs,      \* broker hash scrape:jobs: job id -> job metadata
  queue,     \* broker list scrape:queue: JSON copies of job_data, head first
  lock,      \* broker key scrape:worker_lock: its owner, or "free"
  init_done, \* per process: _worker_init_done
  startpc,   \* per process: position inside start_worker
  snap,      \* per process: what recover_stuck_jobs read (load_jobs, lrange)
  wpc,       \* per process: position of the ScrapeWorker thread
  wjob,      \* per process: the job_data the worker thread holds
  req,       \* per process: the job_data of the start_scrape request in progress
  crashes,   \* number of process deaths so far
  recovered, \* per job: how often recover_stuck_jobs pushed it to the queue
  retried,   \* per job: how often the worker pushed it back for a retry
  resp,      \* the status code of the last response of the scrape routes
  scaller,   \* page scrape: who called ("main" of scraper.py, "scrape_match")
  spc,       \* page scrape: position inside OgolScraper.scrape
  fault,     \* page scrape: how the site answers during this call
  attempts,  \* page scrape: number of page.goto calls of this call
  sdata,     \* page scrape: the keys of self.data
  sret,      \* page scrape: what the caller got back
  rows,      \* concurrent importers: the committed rows of the name-keyed tables
  pend,      \* concurrent importers: per connection, its uncommitted rows
  tpc,       \* concurrent importers: per connection, its position in process_input
  tname,     \* concurrent importers: per connection, the display names of its record
  got,       \* concurrent importers: per connection, the ids its calls returned
  seq,       \* concurrent importers: the last value of each table's id sequence
  begun,     \* concurrent importers: number of transactions begun
  bpc,       \* batch run: position inside run_batch.main
  site,      \* batch run: how the site answers for each page during this run
  urls,      \* batch run: the pages whose future has not completed yet
  total_urls,    \* batch run: total_urls
  success_count, \* batch run: success_count
  committed, \* batch run: the pages whose process_input returned True
  runs,      \* batch run: number of runs started
  mdata,     \* reconciliation: the scraped record that merge_player_data works on
  mpc,       \* reconciliation: position inside merge_player_data
  mtodo,     \* reconciliation: the lineup entries that enrich_players has not reached
  cfpc,      \* challenge wait: position inside navigate_with_cf_wait
  cfpage,    \* challenge wait: what the page shows ("clear", "challenge", "unreadable")
  cffixture, \* challenge wait: whether the page has the #fixture_games element
  cfclock,   \* challenge wait: completed polls since start
  cfseen,    \* challenge wait: what each _is_cloudflare_challenge call found
  cfout,     \* challenge wait: how navigate_with_cf_wait ended
  pfn,       \* value parsing: the parser that was called last
  ptext,     \* value parsing: the text it was called with
  pres       \* value parsing: what it returned

dbvars == <<db, call, pre>>
jobvars == <<jobs, queue, lock, init_done, startpc, snap, wpc, wjob, req, crashes,
             recovered, retried, resp>>
scrapevars == <<scaller, spc, fault, attempts, sdata, sret>>
txvars == <<rows, pend, tpc, tname, got, seq, begun>>
batchvars == <<bpc, site, urls, total_urls, success_count, committed, runs>>
mergevars == <<mdata, mpc, mtodo>>
cfvars == <<cfpc, cfpage, cffixture, cfclock, cfseen, cfout>>
parsevars == <<pfn, ptext, pres>>
vars == <<dbvars, jobvars, scrapevars, txvars, batchvars, mergevars, cfvars, parsevars>>
nondbvars == <<jobvars, scrapevars, txvars, batchvars, mergevars, cfvars, parsevars>>
nonjobvars == <<dbvars, scrapevars, txvars, batchvars, mergevars, cfvars, parsevars>>
nonscrapevars == <<dbvars, jobvars, txvars, batchvars, mergevars, cfvars, parsevars>>
nontxvars == <<dbvars, jobvars, scrapevars, batchvars, mergevars, cfvars, parsevars>>
nonmergevars == <<dbvars, jobvars, scrapevars, txvars, batchvars, cfvars, parsevars>>
noncfvars == <<dbvars, jobvars, scrapevars, txvars, batchvars, mergevars, parsevars>>
nonparsevars == <<dbvars, jobvars, scrapevars, txvars, batchvars, mergevars, cfvars>>

(***************************************************************************)
(* PERSISTENCE LAYER                                                       *)
(***************************************************************************)

\* ---- bounded inputs ----
Teams == {"A", "B"}
Urls == {"u1", "u2"}
PlayerNames == {"P1"}
KnownLeagues == {"brasileirao"}
LeagueSlugs == {"brasileirao", "unknown"}
Years == {2025, 2026}
Scores == {"2"}
XgValues == {"1.8"}
PosseValues == {"55"}
Ratings == {"7.0"}

\* keys of the scraped record that insert_partida strips from the metadata
BigKeys == {"escalacao_casa", "escalacao_fora", "eventos", "stats_home", "stats_away"}
\* the other keys of the record
MetaKeys == {"home_team", "away_team", "rodada", "home_score", "xg_home", "url_fonte"}

\* the steps of process_input at which the store may raise (connection loss,
\* constraint violation, ...); "none" = the store raises nothing of its own
FailPoints == {"none", "season", "time", "partida", "estatisticas", "eventos", "escalacoes"}

\* A structured value under an optional key: <<>> when the key is missing,
\* <<v>> when it is present with value v.
Missing == <<>>
Some(v) == <<v>>
ValueOf(o) == o[1]

StatsInputs == {Missing} \cup {Some(s) : s \in [posse : {Absent} \cup PosseValues]}
GolEvent == [tipo |-> "gol", jogador |-> "P1", time |-> "home"]
EventInputs == {Missing, Some(<<GolEvent>>)}
LineupInputs ==
  {Missing} \cup {Some([titulares |-> <<[nome |-> n, rating |-> r]>>]) :
                    n \in PlayerNames, r \in {Absent} \cup Ratings}

\* a complete record of the match A x B scraped from page u1, all optional
\* parts varying
RichRecords ==
  [home_team : {"A"}, away_team : {"B"}, rodada : {"1"},
   home_score : {Absent} \cup Scores, xg_home : {Absent} \cup XgValues,
   url_fonte : {"u1"}, stats_home : StatsInputs, eventos : EventInputs,
   escalacao_casa : LineupInputs]

\* a record with the match fields only
BareRecords ==
  [home_team : {"A"}, away_team : {"B"}, rodada : {"1"},
   home_score : {Absent} \cup Scores, xg_home : {Absent} \cup XgValues,
   url_fonte : Urls, stats_home : {Missing}, eventos : {Missing},
   escalacao_casa : {Missing}]

\* a record that lacks a required field
InvalidRecords ==
  [home_team : {"A"}, away_team : {"B"}, rodada : {Absent},
   home_score : {Absent}, xg_home : {Absent},
   url_fonte : {"u1"}, stats_home : {Missing}, eventos : {Missing},
   escalacao_casa : {Missing}]

\* the calls process_input(data, league_slug, year) that are tried: complete
\* records for season 2026, match-only records (of either page) for season
\* 2025, a record without its round, and a league that is not seeded
Inputs ==
  (RichRecords \X {"brasileirao"} \X {2026})
    \cup (BareRecords \X {"brasileirao"} \X {2025})
    \cup (InvalidRecords \X {"brasileirao"} \X {2026})
    \cup ({r \in BareRecords : r.home_score = Absent /\ r.xg_home = Absent /\ r.url_fonte = "u2"}
           \X {"unknown"} \X {2026})

EmptyDb ==
  [seasons |-> {}, times |-> {}, jogadores |-> {}, partidas |-> {},
   estatisticas |-> {}, eventos |-> <<>>, escalacoes |-> {}]

\* dict.get(key, default)
Get(v, default) == IF v = Absent THEN default ELSE v

validate_json(data) ==
  /\ data.home_team # Absent
  /\ data.away_team # Absent
  /\ data.rodada # Absent

\* a step's result: the transaction's working copy after it, and whether it raised
Ok(tx, val) == [raised |-> FALSE, tx |-> tx, val |-> val, err |-> "none"]
Raise(tx, err) == [raised |-> TRUE, tx |-> tx, val |-> Null, err |-> err]

\* seasons are identified by (league, year); the league row must exist
get_or_create_season(tx, league_slug, year) ==
  IF league_slug \notin KnownLeagues THEN Raise(tx, "ValueError")
  ELSE Ok([tx EXCEPT !.seasons = @ \cup {<<league_slug, year>>}], <<league_slug, year>>)

\* INSERT ... ON CONFLICT (nome) DO UPDATE ... RETURNING id; the id is the name
get_or_create_time(tx, nome) ==
  Ok([tx EXCEPT !.times = @ \cup {nome}], nome)

\* SELECT by name, INSERT when there is none
get_or_create_jogador(tx, nome, time_id) ==
  IF \E r \in tx.jogadores : r.nome = nome THEN Ok(tx, nome)
  ELSE Ok([tx EXCEPT !.jogadores = @ \cup {[nome |-> nome, time_atual |-> time_id]}], nome)

\* variant: the stored map is replaced by the new one
JsonbConcat_Replace(a, b) == b

\* jsonb || jsonb: top-level keys of the right operand win
JsonbConcat(a, b) == [k \in MetaKeys |-> IF b[k] # Absent THEN b[k] ELSE a[k]]

PartidaKey(season_id, data, casa, fora) ==
  [season |-> season_id, rodada |-> data.rodada, casa |-> casa, fora |-> fora]

KeyOf(row) == [season |-> row.season, rodada |-> row.rodada, casa |-> row.casa, fora |-> row.fora]

\* the unique constraint on partidas.url_fonte (NULLs never conflict)
UrlConflict(tx, url) == url # Null /\ \E r \in tx.partidas : r.url_fonte = url

insert_partida(tx, data, casa, fora, season_id) ==
  LET metadata == [k \in MetaKeys |-> data[k]]
      key == PartidaKey(season_id, data, casa, fora)
      gols == Get(data.home_score, "0")
      url == Get(data.url_fonte, Null)
      old == {r \in tx.partidas : KeyOf(r) = key}
  IN IF old # {}
     THEN LET o == CHOOSE r \in old : TRUE
              n == [o EXCEPT !.gols_casa = gols,
                             !.metadata = JsonbConcat(o.metadata, metadata)]
          IN Ok([tx EXCEPT !.partidas = (@ \ {o}) \cup {n}], key)
     ELSE IF UrlConflict(tx, url) THEN Raise(tx, "IntegrityError")
     ELSE Ok([tx EXCEPT !.partidas = @ \cup
                 {[season |-> key.season, rodada |-> key.rodada, casa |-> casa, fora |-> fora,
                   gols_casa |-> gols, url_fonte |-> url, metadata |-> metadata]}], key)

\* insert_estatisticas: one row per match, ON CONFLICT (partida_id) DO UPDATE.
\* Of the numeric columns the model keeps posse_casa, one of those the
\* DO UPDATE clause assigns from EXCLUDED.
insert_estatisticas(tx, partida_id, data) ==
  LET stats_home == data.stats_home
      posse == IF stats_home = Missing THEN Null ELSE Get(ValueOf(stats_home).posse, Null)
      old == {r \in tx.estatisticas : r.partida = partida_id}
      n == [partida |-> partida_id, posse_casa |-> posse]
  IN Ok([tx EXCEPT !.estatisticas = (@ \ old) \cup {n}], Null)

tipo_map(tipo) == IF tipo = "gol" THEN "GOL" ELSE Absent

\* variant: the events of the match are not deleted before the insert
delete_eventos_Keep(tx, partida_id) == tx

\* DELETE FROM eventos WHERE partida_id = ...
delete_eventos(tx, partida_id) ==
  [tx EXCEPT !.eventos = SelectSeq(@, LAMBDA e : e.partida # partida_id)]

RECURSIVE insert_eventos(_, _, _, _, _)
insert_eventos(tx, partida_id, eventos, time_casa_id, time_fora_id) ==
  IF eventos = <<>> THEN Ok(tx, Null)
  ELSE LET evento == Head(eventos)
           tipo == tipo_map(evento.tipo)
           time_id == IF evento.time = "home" THEN time_casa_id ELSE time_fora_id
       IN IF tipo = Absent
          THEN insert_eventos(tx, partida_id, Tail(eventos), time_casa_id, time_fora_id)
          ELSE LET j == get_or_create_jogador(tx, evento.jogador, time_id)
                   row == [partida |-> partida_id, tipo |-> tipo, jogador |-> j.val]
               IN insert_eventos([j.tx EXCEPT !.eventos = Append(@, row)],
                                 partida_id, Tail(eventos), time_casa_id, time_fora_id)

\* insert_escalacoes: ON CONFLICT (partida_id, jogador_id) DO UPDATE SET nota, stats
RECURSIVE insert_titulares(_, _, _, _)
insert_titulares(tx, partida_id, players, time_id) ==
  IF players = <<>> THEN Ok(tx, Null)
  ELSE LET player == Head(players)
           j == get_or_create_jogador(tx, player.nome, time_id)
           nota == Get(player.rating, Null)
           old == {r \in j.tx.escalacoes : r.partida = partida_id /\ r.jogador = j.val}
           n == [partida |-> partida_id, jogador |-> j.val, titular |-> TRUE, nota |-> nota]
       IN insert_titulares([j.tx EXCEPT !.escalacoes = (@ \ old) \cup {n}],
                           partida_id, Tail(players), time_id)

insert_escalacoes(tx, partida_id, escalacao, time_id) ==
  insert_titulares(tx, partida_id, escalacao.titulares, time_id)

\* variant: the writes made before the exception stay
Rollback_KeepWrites(store, tx) == tx

\* what the store keeps of a transaction that ends without COMMIT
Rollback(store, tx) == store
\* conn.commit()
Commit(store, tx) == tx

\* the second try block of process_input, on the working copy tx
WriteMatch(tx0, data, season_id, failAt) ==
  IF failAt = "time" THEN Raise(tx0, "OperationalError") ELSE
  LET casa == get_or_create_time(tx0, data.home_team)
      fora == get_or_create_time(casa.tx, data.away_team)
  IN
  IF failAt = "partida" THEN Raise(fora.tx, "OperationalError") ELSE
  LET p == insert_partida(fora.tx, data, casa.val, fora.val, season_id) IN
  IF p.raised THEN p ELSE
  LET hasStats == data.stats_home # Missing IN
  IF hasStats /\ failAt = "estatisticas" THEN Raise(p.tx, "OperationalError") ELSE
  LET s == IF hasStats THEN insert_estatisticas(p.tx, p.val, data) ELSE Ok(p.tx, Null)
      hasEv == data.eventos # Missing
  IN
  IF hasEv /\ failAt = "eventos" THEN Raise(delete_eventos(s.tx, p.val), "OperationalError") ELSE
  LET e == IF hasEv THEN insert_eventos(delete_eventos(s.tx, p.val), p.val, ValueOf(data.eventos),
                                         casa.val, fora.val)
           ELSE Ok(s.tx, Null)
      hasLineup == data.escalacao_casa # Missing
  IN
  IF hasLineup /\ failAt = "escalacoes" THEN Raise(e.tx, "OperationalError") ELSE
  IF hasLineup THEN insert_escalacoes(e.tx, p.val, ValueOf(data.escalacao_casa), casa.val)
  ELSE Ok(e.tx, Null)

process_input(store, data, league_slug, year, failAt) ==
  IF ~validate_json(data) THEN [ok |-> FALSE, db |-> store, err |-> "invalid"]
  ELSE
    LET season == IF failAt = "season" THEN Raise(store, "OperationalError")
                  ELSE get_or_create_season(store, league_slug, year)
    IN IF season.raised
       THEN [ok |-> FALSE, db |-> Rollback(store, season.tx), err |-> season.err]
       ELSE LET body == WriteMatch(season.tx, data, season.val, failAt)
            IN IF body.raised
               THEN [ok |-> FALSE, db |-> Rollback(store, body.tx), err |-> body.err]
               ELSE [ok |-> TRUE, db |-> Commit(store, body.tx), err |-> "none"]

InitDb ==
  /\ db = EmptyDb
  /\ call = "none"
  /\ pre = Null

\* one call of process_input, from connect to close; call records what it
\* returned, pre the store a failed call started from
ProcessInput ==
  \E in \in Inputs, failAt \in FailPoints :
    LET r == process_input(db, in[1], in[2], in[3], failAt)
    IN /\ db' = r.db
       /\ call' = IF r.ok THEN "true" ELSE "false"
       /\ pre' = IF r.ok THEN Null ELSE db
       /\ UNCHANGED nondbvars

(***************************************************************************)
(* JOB QUEUE AND WORKER SUPERVISOR                                         *)
(***************************************************************************)

MAX_RETRIES == 3
MAX_RECOVERY_ATTEMPTS == 3

\* the server processes (gunicorn workers) that share the broker
Procs == {"p1", "p2"}
\* the job ids that submissions create
MaxJobs == 2
JobIds == 1..MaxJobs
\* job_id = scrape_{league}_{year}_{round}_{timestamp}: ids 2k-1 and 2k are the
\* submissions of the same (league, year, round) in two different seconds
TripleOf(j) == (j + 1) \div 2
\* the job ids submitted in the behaviours that follow one job through
\* repeated process deaths and retries
MaxSoloJobs == 1
SoloJobIds == 1..MaxSoloJobs
\* how many process deaths a behaviour has
MaxCrashes == 3
\* how many process deaths and how many retries a behaviour with several
\* jobs has
MaxQueueCrashes == 1
MaxQueueRetries == 1

NoJob == [job_id |-> 0, status |-> "absent", retry_count |-> 0, recovery_count |-> 0,
          error |-> "none"]
NoSnap == [jobs |-> [j \in JobIds |-> NoJob], enqueued |-> {}]

\* save_job: HSET scrape:jobs job_id json(job_data)
save_job(hash, job_data) == [hash EXCEPT ![job_data.job_id] = job_data]

\* recover_stuck_jobs, the loop over the jobs it loaded: the state of the
\* broker hash and list after the iterations for the job ids in todo, and the
\* ids it pushed
RECURSIVE RecoverLoop(_, _, _, _, _)
RecoverLoop(todo, loaded, enqueued_job_ids, hash, list) ==
  IF todo = {} THEN [jobs |-> hash, queue |-> list, pushed |-> {}]
  ELSE
    LET job_id == CHOOSE j \in todo : \A k \in todo : j <= k
        job_data == loaded[job_id]
        rest == todo \ {job_id}
    IN IF job_data.status \in {"processing", "queued"} /\ job_id \notin enqueued_job_ids
       THEN LET recovery_count == job_data.recovery_count + 1
            IN IF recovery_count > MAX_RECOVERY_ATTEMPTS
               THEN RecoverLoop(rest, loaded, enqueued_job_ids,
                                save_job(hash, [job_data EXCEPT !.status = "failed",
                                                               !.error = "circuit_breaker"]),
                                list)
               ELSE LET jd == [job_data EXCEPT !.status = "queued",
                                                !.recovery_count = recovery_count]
                        r == RecoverLoop(rest, loaded, enqueued_job_ids,
                                         save_job(hash, jd), <<jd>> \o list)
                    IN [r EXCEPT !.pushed = @ \cup {job_id}]
       ELSE RecoverLoop(rest, loaded, enqueued_job_ids, hash, list)

InitJobs ==
  /\ jobs = [j \in JobIds |-> NoJob]
  /\ queue = <<>>
  /\ lock = "free"
  /\ init_done = [p \in Procs |-> FALSE]
  /\ startpc = [p \in Procs |-> "idle"]
  /\ snap = [p \in Procs |-> NoSnap]
  /\ wpc = [p \in Procs |-> "off"]
  /\ wjob = [p \in Procs |-> NoJob]
  /\ req = [p \in Procs |-> NoJob]
  /\ crashes = 0
  /\ recovered = [j \in JobIds |-> 0]
  /\ retried = [j \in JobIds |-> 0]
  /\ resp = "none"

\* a process that is not inside a request
Quiet(p) == startpc[p] = "idle" /\ req[p] = NoJob

\* _ensure_worker_started and the head of start_worker, on the first request
\* of process p: SET scrape:worker_lock NX EX 300 answers OK, answers nil, or
\* raises (broker error)
EnsureWorkerStarted(p) ==
  /\ ~init_done[p] /\ Quiet(p)
  /\ init_done' = [init_done EXCEPT ![p] = TRUE]
  /\ \E answer \in {"reply", "error"} :
       IF answer = "error"
       THEN /\ startpc' = [startpc EXCEPT ![p] = "scan"]
            /\ lock' = lock
       ELSE IF lock = "free"
            THEN /\ lock' = p
                 /\ startpc' = [startpc EXCEPT ![p] = "scan"]
            ELSE /\ lock' = lock
                 /\ startpc' = startpc
  /\ UNCHANGED <<nonjobvars, resp, jobs, queue, snap, wpc, wjob, req, crashes, recovered, retried>>

\* recover_stuck_jobs, its reads: load_jobs() and LRANGE scrape:queue 0 -1
RecoverScan(p) ==
  /\ startpc[p] = "scan"
  /\ snap' = [snap EXCEPT ![p] =
                [jobs |-> jobs, enqueued |-> {queue[i].job_id : i \in DOMAIN queue}]]
  /\ startpc' = [startpc EXCEPT ![p] = "apply"]
  /\ UNCHANGED <<nonjobvars, resp, jobs, queue, lock, init_done, wpc, wjob, req, crashes, recovered, retried>>

\* recover_stuck_jobs, its loop, and the rest of start_worker: the thread starts
RecoverApply(p) ==
  /\ startpc[p] = "apply"
  /\ LET r == RecoverLoop(JobIds, snap[p].jobs, snap[p].enqueued, jobs, queue)
     IN /\ jobs' = r.jobs
        /\ queue' = r.queue
        /\ recovered' = [j \in JobIds |-> IF j \in r.pushed THEN recovered[j] + 1
                                           ELSE recovered[j]]
  /\ snap' = [snap EXCEPT ![p] = NoSnap]
  /\ startpc' = [startpc EXCEPT ![p] = "idle"]
  /\ wpc' = [wpc EXCEPT ![p] = "idle"]
  /\ UNCHANGED <<nonjobvars, resp, lock, init_done, wjob, req, crashes, retried>>

\* the JSON bodies of POST /scrape; a year or round of 0 stands for a key that
\* is missing or falsy, the round of a complete body names the triple
Rounds == {TripleOf(j) : j \in JobIds}
Bodies == [league : {Absent, "unknown"} \cup KnownLeagues, year : {0, 2026},
           round : {0} \cup Rounds]

\* variant: the league is not looked up
start_scrape_accepts_AnyLeague(body) ==
  body.league # Absent /\ body.year # 0 /\ body.round # 0

\* start_scrape, its two validations: all([league, year, round]) and the
\* league row found by ogol_slug
start_scrape_accepts(body) ==
  /\ body.league # Absent /\ body.year # 0 /\ body.round # 0
  /\ body.league \in KnownLeagues

\* start_scrape with a body that fails a validation: 400, nothing else
SubmitReject(p, body) ==
  /\ init_done[p] /\ Quiet(p)
  /\ ~start_scrape_accepts(body)
  /\ resp' = "400"
  /\ UNCHANGED <<nonjobvars, jobs, queue, lock, init_done, startpc, snap, wpc, wjob,
                 req, crashes, recovered, retried>>

\* start_scrape up to save_job: the metadata of a new job (its id carries the
\* second of the submission, so it is new) is written with status queued
SubmitSave(p, j, body) ==
  /\ init_done[p] /\ Quiet(p)
  /\ start_scrape_accepts(body)
  /\ body.round = TripleOf(j)
  /\ jobs[j] = NoJob
  /\ \A q \in Procs : req[q].job_id # j
  /\ LET job_data == [job_id |-> j, status |-> "queued", retry_count |-> 0,
                      recovery_count |-> 0, error |-> "none"]
     IN /\ jobs' = save_job(jobs, job_data)
        /\ req' = [req EXCEPT ![p] = job_data]
  /\ UNCHANGED <<nonjobvars, resp, queue, lock, init_done, startpc, snap, wpc, wjob, crashes, recovered, retried>>

\* how long the queue may be when a job id is submitted once more
MaxQueueLen == 1

\* start_scrape up to save_job for a (league, year, round) that was already
\* submitted in the same second: int(time.time()) gives the same job id, and
\* HSET replaces the metadata stored under it
SubmitSaveAgain(p, j, body) ==
  /\ init_done[p] /\ Quiet(p)
  /\ start_scrape_accepts(body)
  /\ body.round = TripleOf(j)
  /\ jobs[j] # NoJob
  /\ Len(queue) < MaxQueueLen
  /\ LET job_data == [job_id |-> j, status |-> "queued", retry_count |-> 0,
                      recovery_count |-> 0, error |-> "none"]
     IN /\ jobs' = save_job(jobs, job_data)
        /\ req' = [req EXCEPT ![p] = job_data]
  /\ UNCHANGED <<nonjobvars, resp, queue, lock, init_done, startpc, snap, wpc, wjob, crashes, recovered, retried>>

\* start_scrape, RPUSH scrape:queue and the 202 response
SubmitPush(p) ==
  /\ req[p] # NoJob
  /\ queue' = Append(queue, req[p])
  /\ req' = [req EXCEPT ![p] = NoJob]
  /\ resp' = "202"
  /\ UNCHANGED <<nonjobvars, jobs, lock, init_done, startpc, snap, wpc, wjob, crashes, recovered, retried>>

\* cancel_job: POST /scrape/cancel/<job_id> answers 400 "Cancellation not
\* supported for in-process jobs" and touches neither the hash nor the queue
CancelJob(p, j) ==
  /\ init_done[p] /\ Quiet(p)
  /\ resp' = "400"
  /\ UNCHANGED <<nonjobvars, jobs, queue, lock, init_done, startpc, snap, wpc, wjob,
                 req, crashes, recovered, retried>>

\* scrape_worker: BLPOP returns the head of the list; the job is marked processing
WorkerPop(p) ==
  /\ wpc[p] = "idle"
  /\ queue # <<>>
  /\ LET job_data == [Head(queue) EXCEPT !.status = "processing"]
     IN /\ jobs' = save_job(jobs, job_data)
        /\ wjob' = [wjob EXCEPT ![p] = job_data]
  /\ queue' = Tail(queue)
  /\ wpc' = [wpc EXCEPT ![p] = "exec"]
  /\ UNCHANGED <<nonjobvars, resp, lock, init_done, startpc, snap, req, crashes, recovered, retried>>

\* scrape_worker: run_batch_pipeline returned
WorkerDone(p) ==
  /\ wpc[p] = "exec"
  /\ jobs' = save_job(jobs, [wjob[p] EXCEPT !.status = "completed"])
  /\ wjob' = [wjob EXCEPT ![p] = NoJob]
  /\ wpc' = [wpc EXCEPT ![p] = "idle"]
  /\ UNCHANGED <<nonjobvars, resp, queue, lock, init_done, startpc, snap, req, crashes, recovered, retried>>

\* scrape_worker: run_batch_pipeline raised
WorkerRaise(p) ==
  /\ wpc[p] = "exec"
  /\ IF wjob[p].retry_count < MAX_RETRIES
     THEN LET job_data == [wjob[p] EXCEPT !.status = "queued",
                                           !.retry_count = @ + 1]
          IN /\ jobs' = save_job(jobs, job_data)
             /\ wjob' = [wjob EXCEPT ![p] = job_data]
             /\ wpc' = [wpc EXCEPT ![p] = "backoff"]
     ELSE /\ jobs' = save_job(jobs, [wjob[p] EXCEPT !.status = "failed",
                                                    !.error = "exception"])
          /\ wjob' = [wjob EXCEPT ![p] = NoJob]
          /\ wpc' = [wpc EXCEPT ![p] = "idle"]
  /\ UNCHANGED <<nonjobvars, resp, queue, lock, init_done, startpc, snap, req, crashes, recovered, retried>>

\* scrape_worker: after time.sleep(RETRY_DELAY), RPUSH of the job for its retry
WorkerRequeue(p) ==
  /\ wpc[p] = "backoff"
  /\ queue' = Append(queue, wjob[p])
  /\ retried' = [retried EXCEPT ![wjob[p].job_id] = @ + 1]
  /\ wjob' = [wjob EXCEPT ![p] = NoJob]
  /\ wpc' = [wpc EXCEPT ![p] = "idle"]
  /\ UNCHANGED <<nonjobvars, resp, jobs, lock, init_done, startpc, snap, req, crashes, recovered>>

\* start_scrape: save_job stored the metadata and RPUSH scrape:queue raises
\* (broker unreachable); the exception leaves the view, the application's
\* handler answers 500
SubmitPushError(p) ==
  /\ req[p] # NoJob
  /\ req' = [req EXCEPT ![p] = NoJob]
  /\ resp' = "500"
  /\ UNCHANGED <<nonjobvars, jobs, queue, lock, init_done, startpc, snap, wpc, wjob, crashes, recovered, retried>>

\* scrape_worker: BLPOP returned the job and a statement before the first
\* save_job raises (mkdir or FileHandler of the job's log file); the outer
\* `except Exception` logs and the loop goes back to BLPOP
WorkerPopError(p) ==
  /\ wpc[p] = "idle"
  /\ queue # <<>>
  /\ queue' = Tail(queue)
  /\ UNCHANGED <<nonjobvars, resp, jobs, lock, init_done, startpc, snap, wpc, wjob, req, crashes, recovered, retried>>

\* scrape_worker: run_batch_pipeline returned and the HSET of the final
\* save_job fails; save_job logs the error and returns, the loop goes on
WorkerDoneSaveError(p) ==
  /\ wpc[p] = "exec"
  /\ wjob' = [wjob EXCEPT ![p] = NoJob]
  /\ wpc' = [wpc EXCEPT ![p] = "idle"]
  /\ UNCHANGED <<nonjobvars, resp, jobs, queue, lock, init_done, startpc, snap, req, crashes, recovered, retried>>

\* scrape_worker: after time.sleep(RETRY_DELAY) the RPUSH of the retry raises
\* redis.ConnectionError; the outer handler logs, sleeps 5 s and the loop
\* goes back to BLPOP
WorkerRequeueError(p) ==
  /\ wpc[p] = "backoff"
  /\ wjob' = [wjob EXCEPT ![p] = NoJob]
  /\ wpc' = [wpc EXCEPT ![p] = "idle"]
  /\ UNCHANGED <<nonjobvars, resp, jobs, queue, lock, init_done, startpc, snap, req, crashes, recovered, retried>>

\* the process dies (out of memory, kill) and a new one takes its place; the
\* broker keeps the hash, the list and the lock
Crash(p) ==
  /\ crashes < MaxCrashes
  /\ init_done[p]
  /\ crashes' = crashes + 1
  /\ init_done' = [init_done EXCEPT ![p] = FALSE]
  /\ startpc' = [startpc EXCEPT ![p] = "idle"]
  /\ snap' = [snap EXCEPT ![p] = NoSnap]
  /\ wpc' = [wpc EXCEPT ![p] = "off"]
  /\ wjob' = [wjob EXCEPT ![p] = NoJob]
  /\ req' = [req EXCEPT ![p] = NoJob]
  /\ UNCHANGED <<nonjobvars, resp, jobs, queue, lock, recovered, retried>>

\* the lock key reaches its TTL (WORKER_LOCK_TTL); nothing renews or deletes it
LockExpire ==
  /\ lock # "free"
  /\ lock' = "free"
  /\ UNCHANGED <<nonjobvars, resp, jobs, queue, init_done, startpc, snap, wpc, wjob, req, crashes,
                 recovered, retried>>

(***************************************************************************)
(* BROWSER LAYER: ONE PAGE SCRAPE                                          *)
(***************************************************************************)

\* how the site answers for the whole duration of one call: the page loads
\* and has the match structure, every navigation times out, or the page loads
\* without the match-identity, score and statistics elements
SiteAnswers == {"ok", "timeout", "invalid"}

\* the keys extract_match_info always sets, and those it sets when it finds them
InfoAlways == {"url_fonte", "rodada", "data_hora"}
InfoFound == {"home_team", "home_score", "estadio"}
StatsFound == {"stats_home"}
EventsFound == {"eventos"}
\* extract_lineups always returns both sides
LineupKeys == {"escalacao_casa"}

\* OgolScraper.__init__(self, headless=True): any other keyword is a TypeError
OgolScraper_init(kwargs) == kwargs \subseteq {"headless"}

InitScrape ==
  /\ scaller = "none"
  /\ spc = "idle"
  /\ fault = "ok"
  /\ attempts = 0
  /\ sdata = {}
  /\ sret = "none"

\* scraper.py main(): OgolScraper(headless=headless).scrape(url)
MainCall(f) ==
  /\ spc \in {"idle", "end"}
  /\ scaller' = "main"
  /\ fault' = f
  /\ attempts' = 0
  /\ sdata' = {}
  /\ sret' = "none"
  /\ spc' = IF OgolScraper_init({"headless"}) THEN "goto" ELSE "end"
  /\ UNCHANGED nonscrapevars

\* run_batch.scrape_match: OgolScraper(headless=True, detailed=True).scrape(url)
\* inside try/except Exception: return None
ScrapeMatchCall(f) ==
  /\ spc \in {"idle", "end"}
  /\ scaller' = "scrape_match"
  /\ fault' = f
  /\ attempts' = 0
  /\ sdata' = {}
  /\ IF OgolScraper_init({"headless", "detailed"})
     THEN spc' = "goto" /\ sret' = "none"
     ELSE spc' = "end" /\ sret' = "None"
  /\ UNCHANGED nonscrapevars

\* the except branches and the final return of scrape: the error is logged and
\* self.data is returned as it is
ReturnData == spc' = "end" /\ sret' = "data"

\* page.goto(url, timeout=60000) and the scrolling after it
Goto ==
  /\ spc = "goto"
  /\ attempts' = attempts + 1
  /\ IF fault = "timeout"
     THEN ReturnData
     ELSE spc' = "info" /\ sret' = sret
  /\ UNCHANGED <<nonscrapevars, scaller, fault, sdata>>

\* self.data = extract_match_info(page); self.data['url_fonte'] = url
ExtractInfo ==
  /\ spc = "info"
  /\ \E found \in SUBSET InfoFound :
       /\ fault = "invalid" => found = {}
       /\ sdata' = InfoAlways \cup found
  /\ spc' = "stats"
  /\ UNCHANGED <<nonscrapevars, scaller, fault, attempts, sret>>

\* self.data.update(extract_statistics(page))
ExtractStatistics ==
  /\ spc = "stats"
  /\ \E found \in SUBSET StatsFound :
       /\ fault = "invalid" => found = {}
       /\ sdata' = sdata \cup found
  /\ spc' = "events"
  /\ UNCHANGED <<nonscrapevars, scaller, fault, attempts, sret>>

\* events = extract_events(page); if events: self.data['eventos'] = events
ExtractEvents ==
  /\ spc = "events"
  /\ \E found \in SUBSET EventsFound : sdata' = sdata \cup found
  /\ spc' = "lineups"
  /\ UNCHANGED <<nonscrapevars, scaller, fault, attempts, sret>>

\* self.data.update(extract_lineups(page)); _fix_teams_by_url; return self.data
ExtractLineups ==
  /\ spc = "lineups"
  /\ sdata' = sdata \cup LineupKeys
  /\ ReturnData
  /\ UNCHANGED <<nonscrapevars, scaller, fault, attempts>>

\* any statement between the navigation and the return raises (a scroll on a
\* closed page, a selector wait): except Exception logs it
ScrapeException ==
  /\ spc \in {"info", "stats", "events", "lineups"}
  /\ ReturnData
  /\ UNCHANGED <<nonscrapevars, scaller, fault, attempts, sdata>>

NextScrape ==
  \/ \E f \in SiteAnswers : MainCall(f)
  \/ \E f \in SiteAnswers : ScrapeMatchCall(f)
  \/ Goto
  \/ ExtractInfo
  \/ ExtractStatistics
  \/ ExtractEvents
  \/ ExtractLineups
  \/ ScrapeException

(***************************************************************************)
(* PERSISTENCE LAYER: CONCURRENT IMPORTERS AND THE NAME-KEYED TABLES       *)
(***************************************************************************)

\* the connections (one per concurrent process_input call)
Conns == {"c1", "c2"}
\* the tables whose rows are found by display name
Kinds == {"times", "estadios", "arbitros", "jogadores"}
\* the tables with a unique constraint on nome (Time, Estadio, Arbitro)
UniqueNome == {"times", "estadios", "arbitros"}
\* the display names the records refer to
RefNames == {"n1", "n2"}
\* how many transactions a behaviour begins
MaxTx == 3

\* a record names its teams, venue and referee by team and its players by player
NamesOf(team, player) == [k \in Kinds |-> IF k = "jogadores" THEN player ELSE team]

NoRows == [k \in Kinds |-> {}]
NoIds == [k \in Kinds |-> 0]

InitTx ==
  /\ rows = NoRows
  /\ pend = [c \in Conns |-> NoRows]
  /\ tpc = [c \in Conns |-> "idle"]
  /\ tname = [c \in Conns |-> NamesOf("n1", "n1")]
  /\ got = [c \in Conns |-> NoIds]
  /\ seq = NoIds
  /\ begun = 0

\* process_input opens a connection for a record of team n with player m
BeginTx(c, n, m) ==
  /\ tpc[c] = "idle"
  /\ begun < MaxTx
  /\ begun' = begun + 1
  /\ tname' = [tname EXCEPT ![c] = NamesOf(n, m)]
  /\ got' = [got EXCEPT ![c] = NoIds]
  /\ tpc' = [tpc EXCEPT ![c] = "times"]
  /\ UNCHANGED <<nontxvars, rows, pend, seq>>

\* the rows of table k with name n that a statement of connection c sees
\* (READ COMMITTED: the committed rows and the connection's own)
Visible(c, k, n) == {r \in rows[k] \cup pend[c][k] : r.nome = n}

\* INSERT INTO k (nome) VALUES (n) RETURNING id
InsertRow(c, k, n) ==
  /\ seq' = [seq EXCEPT ![k] = @ + 1]
  /\ pend' = [pend EXCEPT ![c][k] = @ \cup {[id |-> seq[k] + 1, nome |-> n]}]
  /\ got' = [got EXCEPT ![c][k] = seq[k] + 1]
  /\ rows' = rows

\* the statement returns the id of a row it sees
ReturnId(c, k, n) ==
  /\ \E r \in Visible(c, k, n) : got' = [got EXCEPT ![c][k] = r.id]
  /\ UNCHANGED <<rows, pend, seq>>

\* a transaction in progress
Active(c) == tpc[c] \in Kinds \cup {"commit"}

\* INSERT ... ON CONFLICT (nome) DO UPDATE SET nome = EXCLUDED.nome RETURNING id:
\* the statement waits while another transaction in progress has inserted or
\* updated (and so locked) the row of the same name
Upsert(c, k) ==
  /\ \A d \in Conns \ {c} :
       (Active(d) /\ tname[d][k] = tname[c][k]) => got[d][k] = 0
  /\ IF Visible(c, k, tname[c][k]) # {}
     THEN ReturnId(c, k, tname[c][k])
     ELSE InsertRow(c, k, tname[c][k])

\* process_input: get_or_create_time for the record's teams
TxGetOrCreateTime(c) ==
  /\ tpc[c] = "times"
  /\ Upsert(c, "times")
  /\ tpc' = [tpc EXCEPT ![c] = "estadios"]
  /\ UNCHANGED <<nontxvars, tname, begun>>

\* process_input: get_or_create_estadio
TxGetOrCreateEstadio(c) ==
  /\ tpc[c] = "estadios"
  /\ Upsert(c, "estadios")
  /\ tpc' = [tpc EXCEPT ![c] = "arbitros"]
  /\ UNCHANGED <<nontxvars, tname, begun>>

\* process_input: get_or_create_arbitro
TxGetOrCreateArbitro(c) ==
  /\ tpc[c] = "arbitros"
  /\ Upsert(c, "arbitros")
  /\ tpc' = [tpc EXCEPT ![c] = "jogadores"]
  /\ UNCHANGED <<nontxvars, tname, begun>>

\* insert_eventos / insert_escalacoes: get_or_create_jogador:
\* SELECT id FROM jogadores WHERE nome = n; if no row, INSERT ... RETURNING id
TxGetOrCreateJogador(c) ==
  /\ tpc[c] = "jogadores"
  /\ IF Visible(c, "jogadores", tname[c]["jogadores"]) # {}
     THEN ReturnId(c, "jogadores", tname[c]["jogadores"])
     ELSE InsertRow(c, "jogadores", tname[c]["jogadores"])
  /\ tpc' = [tpc EXCEPT ![c] = "commit"]
  /\ UNCHANGED <<nontxvars, tname, begun>>

\* conn.commit()
CommitTx(c) ==
  /\ tpc[c] = "commit"
  /\ rows' = [k \in Kinds |-> rows[k] \cup pend[c][k]]
  /\ pend' = [pend EXCEPT ![c] = NoRows]
  /\ tpc' = [tpc EXCEPT ![c] = "done"]
  /\ UNCHANGED <<nontxvars, tname, got, seq, begun>>

\* a later statement of the transaction raises: conn.rollback()
RollbackTx(c) ==
  /\ Active(c)
  /\ pend' = [pend EXCEPT ![c] = NoRows]
  /\ got' = [got EXCEPT ![c] = NoIds]
  /\ tpc' = [tpc EXCEPT ![c] = "idle"]
  /\ UNCHANGED <<nontxvars, rows, tname, seq, begun>>

\* conn.close(); process_input returns
CloseTx(c) ==
  /\ tpc[c] = "done"
  /\ tpc' = [tpc EXCEPT ![c] = "idle"]
  /\ UNCHANGED <<nontxvars, rows, pend, tname, got, seq, begun>>

NextTx ==
  \/ \E c \in Conns, n \in RefNames, m \in RefNames : BeginTx(c, n, m)
  \/ \E c \in Conns : TxGetOrCreateTime(c)
  \/ \E c \in Conns : TxGetOrCreateEstadio(c)
  \/ \E c \in Conns : TxGetOrCreateArbitro(c)
  \/ \E c \in Conns : TxGetOrCreateJogador(c)
  \/ \E c \in Conns : CommitTx(c)
  \/ \E c \in Conns : RollbackTx(c)
  \/ \E c \in Conns : CloseTx(c)

(***************************************************************************)
(* BATCH RUN: run_batch.main OVER THE PAGES OF ONE ROUND                   *)
(***************************************************************************)

\* how many runs of the pipeline a behaviour starts
MaxRuns == 2

\* state.check_match_exists: SELECT id FROM partidas WHERE url_fonte = url
check_match_exists(store, url) == \E r \in store.partidas : r.url_fonte = url

\* what run_batch.scrape_match returns for a page: None when anything raises
\* (the constructor call included), else what OgolScraper.scrape returns: the
\* record of a page that loaded, a record without the match fields for a page
\* without the match structure, the empty dict after a navigation timeout
scrape_match(answer) ==
  IF ~OgolScraper_init({"headless", "detailed"}) THEN "None"
  ELSE IF answer = "ok" THEN "record"
  ELSE IF answer = "invalid" THEN "partial"
  ELSE "empty"

\* the normalized record of the page u when it loads completely
PageRecord(u) ==
  [home_team |-> IF u = "u1" THEN "A" ELSE "B",
   away_team |-> IF u = "u1" THEN "B" ELSE "A", rodada |-> "1",
   home_score |-> "2", xg_home |-> Absent, url_fonte |-> u,
   stats_home |-> Missing, eventos |-> Missing, escalacao_casa |-> Missing]

\* the record of a page without the match structure: url_fonte only
PartialRecord(u) == [PageRecord(u) EXCEPT !.home_team = Absent, !.away_team = Absent,
                                          !.home_score = Absent]

InitBatch ==
  /\ bpc = "idle"
  /\ site = [u \in Urls |-> "ok"]
  /\ urls = {}
  /\ total_urls = 0
  /\ success_count = 0
  /\ committed = {}
  /\ runs = 0

\* main up to the thread pool: get_matches, the check_match_exists filter,
\* sys.exit(0) when nothing is left
BatchStart(answers) ==
  /\ bpc \in {"idle", "done"}
  /\ runs < MaxRuns
  /\ runs' = runs + 1
  /\ site' = answers
  /\ urls' = {u \in Urls : ~check_match_exists(db, u)}
  /\ total_urls' = Cardinality(urls')
  /\ success_count' = 0
  /\ committed' = {}
  /\ bpc' = IF urls' = {} THEN "done" ELSE "running"
  /\ UNCHANGED <<dbvars, jobvars, scrapevars, txvars, mergevars, cfvars, parsevars>>

\* main, one iteration of the as_completed loop: the future of page u
BatchPage(u, failAt) ==
  /\ bpc = "running"
  /\ u \in urls
  /\ urls' = urls \ {u}
  /\ LET result == scrape_match(site[u])
     IN IF result \in {"None", "empty"}
        THEN UNCHANGED <<dbvars, success_count, committed>>
        ELSE LET data == IF result = "record" THEN PageRecord(u) ELSE PartialRecord(u)
                 r == process_input(db, data, "brasileirao", 2026, failAt)
             IN /\ success_count' = success_count + 1
                /\ db' = r.db
                /\ call' = IF r.ok THEN "true" ELSE "false"
                /\ pre' = IF r.ok THEN Null ELSE db
                /\ committed' = IF r.ok THEN committed \cup {u} ELSE committed
  /\ UNCHANGED <<jobvars, scrapevars, txvars, mergevars, cfvars, parsevars, bpc, site, total_urls, runs>>

\* main after the loop: the summary 'Pipeline completed' with
\* total_matches = total_urls, successful = success_count
BatchFinish ==
  /\ bpc = "running"
  /\ urls = {}
  /\ bpc' = "done"
  /\ UNCHANGED <<dbvars, jobvars, scrapevars, txvars, mergevars, cfvars, parsevars, site, urls, total_urls, success_count,
                 committed, runs>>

\* the process running main is killed between two pages
BatchInterrupt ==
  /\ bpc = "running"
  /\ bpc' = "idle"
  /\ urls' = {}
  /\ UNCHANGED <<dbvars, jobvars, scrapevars, txvars, mergevars, cfvars, parsevars, site, total_urls, success_count,
                 committed, runs>>

\* a record is imported outside the batch run (scraper.py main piped into
\* db_importer.py main) while no run has started
ImportBeforeBatch ==
  /\ runs = 0
  /\ ProcessInput

NextBatch ==
  \/ ImportBeforeBatch
  \/ \E answers \in [Urls -> SiteAnswers] : BatchStart(answers)
  \/ \E u \in Urls, failAt \in {"none", "partida"} : BatchPage(u, failAt)
  \/ BatchFinish
  \/ BatchInterrupt

(***************************************************************************)
(* RECONCILIATION OF THE PLAYER FACETS (utils/merger.py)                   *)
(***************************************************************************)

\* the keys of a player dict; a key the dict does not have is Absent, a key
\* whose value is None is Null
PlayerKeys == {"nome", "numero", "player_id", "rating", "rating_qualidade",
               "defesa", "passe", "ataque"}
StatCategories == <<"defesa", "passe", "ataque">>

\* the truth value Python gives to the result of dict.get(key)
Truthy(v) == v \notin {Absent, Null, ""}

\* lineup entries: name and shirt number from the lineup listing, and what an
\* earlier reconciliation may have filled in
LineupEntries ==
  [nome : {"Jo"}, numero : {Null}, player_id : {Absent, "10"},
   rating : {Absent, "7.0"}, rating_qualidade : {Absent},
   defesa : {Absent, "d1"}, passe : {Absent}, ataque : {Absent}]
BenchEntry ==
  [nome |-> "Al", numero |-> "9", player_id |-> Absent, rating |-> Absent,
   rating_qualidade |-> Absent, defesa |-> Absent, passe |-> Absent, ataque |-> Absent]
\* entries of the ratings facet (player_ratings._process_ratings): the keys
\* player_id, nome, numero and rating are always set, to None when the block
\* shows no value; rating_qualidade only when there is a colour or a rating
BenchRating ==
  [nome |-> "Al", numero |-> "9", player_id |-> "11", rating |-> "6.0",
   rating_qualidade |-> "bom", defesa |-> Absent, passe |-> Absent, ataque |-> Absent]
RatingEntries ==
  [nome : {"JO "}, numero : {Null, "9"}, player_id : {Null, "10", "11"},
   rating : {"6.0"}, rating_qualidade : {"bom"},
   defesa : {Absent}, passe : {Absent}, ataque : {Absent}]
  \cup
  [nome : {"JO "}, numero : {Null, "9"}, player_id : {Null, "10", "11"},
   rating : {Null}, rating_qualidade : {Absent},
   defesa : {Absent}, passe : {Absent}, ataque : {Absent}]
  \cup {BenchRating}
\* entries of the detailed statistics facet (player_detailed_stats._process_player_stats)
StatEntries ==
  [nome : {"jo"}, numero : {Absent}, player_id : {Null, "10", "12"},
   rating : {Absent, "5.0"}, rating_qualidade : {Absent},
   defesa : {"d2"}, passe : {"p2"}, ataque : {Absent}]

Escalacoes ==
  {Missing} \cup {Some([titulares |-> <<t>>, reservas |-> r]) :
                    t \in LineupEntries, r \in {<<>>, <<BenchEntry>>}}
FacetLists(entries) == {Missing} \cup {Some(<<e>>) : e \in entries}

\* the scraped records that merge_player_data is called with
MergeInputs ==
  [escalacao_casa : Escalacoes,
   ratings_home : FacetLists(RatingEntries),
   stats_detalhadas_home : FacetLists(StatEntries),
   escalacao_fora : {Missing, Some([titulares |-> <<BenchEntry>>, reservas |-> <<>>])},
   ratings_away : FacetLists({BenchRating}),
   stats_detalhadas_away : {Missing}]

NoData ==
  [escalacao_casa |-> Missing, ratings_home |-> Missing, stats_detalhadas_home |-> Missing,
   escalacao_fora |-> Missing, ratings_away |-> Missing, stats_detalhadas_away |-> Missing]

\* lowercase, no accents, no spaces
normalize_name(name) ==
  CASE name \in {"Jo", "JO ", "jo"} -> "jo"
    [] name \in {"Al"} -> "al"
    [] OTHER -> ""

MapPut(mapping, key, p) ==
  [k \in DOMAIN mapping \cup {key} |-> IF k = key THEN p ELSE mapping[k]]

\* the lookup map of a facet: one key per id and one per normalized name, a
\* later entry of the list replacing an earlier one under the same key
RECURSIVE create_player_map(_)
create_player_map(player_list) ==
  IF player_list = <<>> THEN <<>>
  ELSE LET p == player_list[Len(player_list)]
           m0 == create_player_map(SubSeq(player_list, 1, Len(player_list) - 1))
           m1 == IF Truthy(p.player_id) THEN MapPut(m0, <<"id", p.player_id>>, p) ELSE m0
       IN IF Truthy(p.nome) THEN MapPut(m1, <<"name", normalize_name(p.nome)>>, p) ELSE m1

\* the facet entry of the player: by id first, then by normalized name
find_match(target, source_map) ==
  IF Truthy(target.player_id) /\ <<"id", target.player_id>> \in DOMAIN source_map
  THEN Some(source_map[<<"id", target.player_id>>])
  ELSE IF Truthy(target.nome) /\ <<"name", normalize_name(target.nome)>> \in DOMAIN source_map
  THEN Some(source_map[<<"name", normalize_name(target.nome)>>])
  ELSE Missing

\* variant: the facet's value is taken whether or not the player has the key
SetIfAbsent_Always(player, key, source) ==
  IF source[key] # Absent THEN [player EXCEPT ![key] = source[key]] ELSE player

\* if key not in player and key in source: player[key] = source[key]
SetIfAbsent(player, key, source) ==
  IF player[key] = Absent /\ source[key] # Absent
  THEN [player EXCEPT ![key] = source[key]] ELSE player

\* if not player.get('player_id') and source.get('player_id'): take the id
FillPlayerId(player, source) ==
  IF ~Truthy(player.player_id) /\ Truthy(source.player_id)
  THEN [player EXCEPT !.player_id = source.player_id] ELSE player

\* enrich_players, the ratings part for one player
merge_ratings(player, ratings_map) ==
  LET found == find_match(player, ratings_map) IN
  IF found = Missing THEN player
  ELSE LET rating_data == ValueOf(found)
       IN FillPlayerId(SetIfAbsent(SetIfAbsent(player, "rating", rating_data),
                                   "rating_qualidade", rating_data), rating_data)

RECURSIVE merge_categories(_, _, _)
merge_categories(player, stat_data, cats) ==
  IF cats = <<>> THEN player
  ELSE merge_categories(SetIfAbsent(player, Head(cats), stat_data), stat_data, Tail(cats))

\* enrich_players, the detailed statistics part for one player
merge_stats(player, stats_map) ==
  LET found == find_match(player, stats_map) IN
  IF found = Missing THEN player
  ELSE LET stat_data == ValueOf(found)
       IN SetIfAbsent(FillPlayerId(merge_categories(player, stat_data, StatCategories),
                                   stat_data), "rating", stat_data)

EscalacaoKey(side) == IF side = "casa" THEN "escalacao_casa" ELSE "escalacao_fora"
RatingsKey(side) == IF side = "casa" THEN "ratings_home" ELSE "ratings_away"
StatsKey(side) == IF side = "casa" THEN "stats_detalhadas_home" ELSE "stats_detalhadas_away"

\* data.get(key, [])
ListOf(data, key) == IF data[key] = Missing THEN <<>> ELSE ValueOf(data[key])

\* the lineup entries of one team in the order enrich_players visits them;
\* none when the lineup is missing (if not escalacao: return)
PositionsOf(data, side) ==
  IF data[EscalacaoKey(side)] = Missing THEN <<>>
  ELSE LET e == ValueOf(data[EscalacaoKey(side)])
       IN [i \in 1..Len(e.titulares) |-> <<side, "titulares", i>>]
            \o [i \in 1..Len(e.reservas) |-> <<side, "reservas", i>>]

Positions(data) == PositionsOf(data, "casa") \o PositionsOf(data, "fora")

PlayerAt(data, pos) == ValueOf(data[EscalacaoKey(pos[1])])[pos[2]][pos[3]]

SetPlayerAt(data, pos, player) ==
  [data EXCEPT ![EscalacaoKey(pos[1])] = Some([ValueOf(@) EXCEPT ![pos[2]][pos[3]] = player])]

InitMerge ==
  /\ mdata = NoData
  /\ mpc = "idle"
  /\ mtodo = <<>>

\* merge_player_data(data) is called
MergeStart(data) ==
  /\ mpc = "idle"
  /\ mdata' = data
  /\ mtodo' = Positions(data)
  /\ mpc' = IF Positions(data) = <<>> THEN "remove" ELSE "ratings"
  /\ UNCHANGED nonmergevars

\* enrich_players: MERGE RATINGS for the next player
EnrichRatings ==
  /\ mpc = "ratings"
  /\ LET pos == Head(mtodo)
         ratings_map == create_player_map(ListOf(mdata, RatingsKey(pos[1])))
     IN mdata' = SetPlayerAt(mdata, pos, merge_ratings(PlayerAt(mdata, pos), ratings_map))
  /\ mpc' = "stats"
  /\ UNCHANGED <<nonmergevars, mtodo>>

\* enrich_players: MERGE DETAILED STATS for the same player
EnrichStats ==
  /\ mpc = "stats"
  /\ LET pos == Head(mtodo)
         stats_map == create_player_map(ListOf(mdata, StatsKey(pos[1])))
     IN mdata' = SetPlayerAt(mdata, pos, merge_stats(PlayerAt(mdata, pos), stats_map))
  /\ mtodo' = Tail(mtodo)
  /\ mpc' = IF Tail(mtodo) = <<>> THEN "remove" ELSE "ratings"
  /\ UNCHANGED nonmergevars

\* the redundant keys are deleted and data is returned
RemoveKeys ==
  /\ mpc = "remove"
  /\ mdata' = [mdata EXCEPT !.ratings_home = Missing, !.ratings_away = Missing,
                            !.stats_detalhadas_home = Missing,
                            !.stats_detalhadas_away = Missing]
  /\ mpc' = "done"
  /\ UNCHANGED <<nonmergevars, mtodo>>

NextMerge ==
  \/ \E data \in MergeInputs : MergeStart(data)
  \/ EnrichRatings
  \/ EnrichStats
  \/ RemoveKeys

(***************************************************************************)
(* CHALLENGE WAIT (utils/browser_factory.py)                               *)
(***************************************************************************)

PageStates == {"clear", "challenge", "unreadable"}
\* the deadline of wait_for_cloudflare, in polls (timeout / poll_interval)
CfPolls == 4

\* _is_cloudflare_challenge: an indicator in the title or the body, and True
\* when the page cannot be read (except Exception: return True)
is_cloudflare_challenge(pg) == pg # "clear"

\* page.title() outside a try block raises when the page cannot be read
TitleRaises(pg) == pg = "unreadable"

InitCf ==
  /\ cfpc = "idle"
  /\ cfpage = "clear"
  /\ cffixture = FALSE
  /\ cfclock = 0
  /\ cfseen = <<>>
  /\ cfout = "none"

\* navigate_with_cf_wait: page.goto has returned
NavigateStart(pg, fixture) ==
  /\ cfpc \in {"idle", "end"}
  /\ cfpc' = "initial"
  /\ cfpage' = pg
  /\ cffixture' = fixture
  /\ cfclock' = 0
  /\ cfseen' = <<>>
  /\ cfout' = "none"
  /\ UNCHANGED noncfvars

\* wait_for_cloudflare: the initial check
InitialCheck ==
  /\ cfpc = "initial"
  /\ cfseen' = Append(cfseen, cfpage)
  /\ IF is_cloudflare_challenge(cfpage)
     THEN cfpc' = "detected" /\ cfout' = cfout
     ELSE cfpc' = "end" /\ cfout' = "returned"
  /\ UNCHANGED <<noncfvars, cfpage, cffixture, cfclock>>

\* slog("Cloudflare challenge detected, waiting", page_title=page.title())
LogDetected ==
  /\ cfpc = "detected"
  /\ IF TitleRaises(cfpage)
     THEN cfpc' = "end" /\ cfout' = "PlaywrightError"
     ELSE cfpc' = "loop" /\ cfout' = cfout
  /\ UNCHANGED <<noncfvars, cfpage, cffixture, cfclock, cfseen>>

\* one turn of the while loop: the side effects and the sleep, during which
\* the page may change, the debug log every fifth second, the check
Poll(pg, log) ==
  /\ cfpc = "loop"
  /\ cfclock < CfPolls
  /\ cfclock' = cfclock + 1
  /\ cfpage' = pg
  /\ IF log /\ TitleRaises(pg)
     THEN cfpc' = "end" /\ cfout' = "PlaywrightError" /\ cfseen' = cfseen
     ELSE /\ cfseen' = Append(cfseen, pg)
          /\ IF is_cloudflare_challenge(pg)
             THEN cfpc' = "loop" /\ cfout' = cfout
             ELSE cfpc' = "end" /\ cfout' = "returned"
  /\ UNCHANGED <<noncfvars, cffixture>>

\* the loop ends on the deadline: log_diagnostic(actual=... page.title() ...),
\* return False
Deadline ==
  /\ cfpc = "loop"
  /\ cfclock >= CfPolls
  /\ IF TitleRaises(cfpage)
     THEN cfpc' = "end" /\ cfout' = "PlaywrightError"
     ELSE cfpc' = "final" /\ cfout' = cfout
  /\ UNCHANGED <<noncfvars, cfpage, cffixture, cfclock, cfseen>>

\* navigate_with_cf_wait after wait_for_cloudflare returned False
FinalCheck ==
  /\ cfpc = "final"
  /\ cfpc' = "end"
  /\ cfout' = IF cffixture THEN "returned" ELSE "InvalidDOMError"
  /\ UNCHANGED <<noncfvars, cfpage, cffixture, cfclock, cfseen>>

NextCf ==
  \/ \E pg \in PageStates, fixture \in BOOLEAN : NavigateStart(pg, fixture)
  \/ InitialCheck
  \/ LogDetected
  \/ \E pg \in PageStates, log \in BOOLEAN : Poll(pg, log)
  \/ Deadline
  \/ FinalCheck

(***************************************************************************)
(* VALUE PARSERS (utils/parsing.py, utils/normalization.py,                *)
(* extractors/player_detailed_stats.py)                                    *)
(***************************************************************************)

\* a text is a sequence of characters
Digits == {"0", "1", "2", "3", "4", "5", "6", "7", "8", "9"}
Chars == {"1", ".", "-", "%", "/", "x"}
MaxTextLen == 3

RECURSIVE TextsOfLen(_)
TextsOfLen(n) ==
  IF n = 0 THEN {<<>>}
  ELSE {Append(t, c) : t \in TextsOfLen(n - 1), c \in Chars}

\* every text of up to MaxTextLen characters, and some longer cell texts
Texts ==
  UNION {TextsOfLen(n) : n \in 0..MaxTextLen}
    \cup {<<"4", "/", "1", "0", " ", "(", "4", "0", "%", ")">>,
          <<"4", "/", "1", "0", "(", "4", "0", ".", "5", "%", ")">>,
          <<"4", "/", "1", "0", " ", "(", "4", "0", "%", ")", "x">>,
          <<"4", "/", "1", "0">>, <<"4", "/", "0">>, <<"4", "/", "1", "0", "x">>,
          <<"5", "2", "%">>, <<"1", "2", " ", "k", "m">>, <<"1", ",", "8">>,
          <<"1", ".", "2", "0", "0", ",", "5">>, <<" ", "3">>, <<"x", "1", "2">>}

Has(t, c) == \E i \in 1..Len(t) : t[i] = c
\* str.replace(c, '')
Remove(t, c) == SelectSeq(t, LAMBDA ch : ch # c)
\* str.replace(c, d)
Replace(t, c, d) == [i \in 1..Len(t) |-> IF t[i] = c THEN d ELSE t[i]]

\* str.replace('km', '')
RECURSIVE RemoveKm(_)
RemoveKm(t) ==
  IF Len(t) < 2 THEN t
  ELSE IF t[1] = "k" /\ t[2] = "m" THEN RemoveKm(SubSeq(t, 3, Len(t)))
  ELSE <<Head(t)>> \o RemoveKm(Tail(t))

RECURSIVE LStrip(_)
LStrip(t) == IF t # <<>> /\ Head(t) = " " THEN LStrip(Tail(t)) ELSE t
RECURSIVE RStrip(_)
RStrip(t) == IF t # <<>> /\ t[Len(t)] = " " THEN RStrip(SubSeq(t, 1, Len(t) - 1)) ELSE t
\* str.strip()
Strip(t) == RStrip(LStrip(t))

IsDigits(t) == t # <<>> /\ \A i \in 1..Len(t) : t[i] \in Digits
Unsigned(t) == IF t # <<>> /\ Head(t) \in {"+", "-"} THEN Tail(t) ELSE t
\* int(t) does not raise ValueError
IntParses(t) == IsDigits(Unsigned(Strip(t)))
\* float(t) does not raise ValueError
FloatParses(t) ==
  LET u == Unsigned(Strip(t)) IN
  /\ \A i \in 1..Len(u) : u[i] \in Digits \cup {"."}
  /\ Cardinality({i \in 1..Len(u) : u[i] = "."}) <= 1
  /\ \E i \in 1..Len(u) : u[i] \in Digits

\* the length of the longest prefix made of characters of set
RECURSIVE Leading(_, _)
Leading(t, set) == IF t # <<>> /\ Head(t) \in set THEN 1 + Leading(Tail(t), set) ELSE 0
Drop(t, n) == SubSeq(t, n + 1, Len(t))

\* re.search(r'(\d+)', text).group(1), <<>> when there is no match
RECURSIVE FirstDigitRun(_)
FirstDigitRun(t) ==
  IF t = <<>> THEN <<>>
  ELSE IF Head(t) \in Digits THEN SubSeq(t, 1, Leading(t, Digits))
  ELSE FirstDigitRun(Tail(t))

\* the length of what re.match(r'(\d+)/(\d+)', t) matches, 0 when it does not
FractionLen(t) ==
  LET a == Leading(t, Digits) IN
  IF a = 0 \/ Len(t) < a + 2 \/ t[a + 1] # "/" THEN 0
  ELSE LET b == Leading(Drop(t, a + 1), Digits) IN IF b = 0 THEN 0 ELSE a + 1 + b

\* the length of what re.match(r'(\d+)/(\d+)\s*\((\d+(?:\.\d+)?)%\)', t) matches
TripleLen(t) ==
  LET f == FractionLen(t) IN
  IF f = 0 THEN 0 ELSE
  LET sp == Leading(Drop(t, f), {" "})
      r2 == Drop(t, f + sp)
  IN IF r2 = <<>> \/ Head(r2) # "(" THEN 0 ELSE
  LET z == Leading(Tail(r2), Digits)
      r4 == Drop(Tail(r2), z)
      frac == IF Len(r4) >= 2 /\ r4[1] = "." /\ Leading(Tail(r4), Digits) > 0
              THEN 1 + Leading(Tail(r4), Digits) ELSE 0
      r5 == Drop(r4, frac)
  IN IF z > 0 /\ Len(r5) >= 2 /\ r5[1] = "%" /\ r5[2] = ")"
     THEN f + sp + 1 + z + frac + 2 ELSE 0

\* what a parser returns: None, a number (with the text handed to int or
\* float), a total/attempts/percentage dict (with the text the pattern
\* matched), or a string
ReturnNone == [kind |-> "None", src |-> <<>>]
ReturnInt(src) == [kind |-> "int", src |-> src]
ReturnFloat(src) == [kind |-> "float", src |-> src]
ReturnDict(src) == [kind |-> "dict", src |-> src]
ReturnStr(src) == [kind |-> "str", src |-> src]

parse_value(text0) ==
  LET text == Strip(text0)
      stripped == Strip(Remove(text, "%"))
      text_clean == IF Has(stripped, ",") /\ ~Has(stripped, ".")
                    THEN Replace(stripped, ",", ".") ELSE stripped
      fallback == IF FirstDigitRun(text) # <<>> THEN ReturnInt(FirstDigitRun(text))
                  ELSE ReturnNone
  IN IF Has(text_clean, ".")
     THEN IF FloatParses(text_clean) THEN ReturnFloat(text_clean) ELSE fallback
     ELSE IF IntParses(text_clean) THEN ReturnInt(text_clean) ELSE fallback

clean_number(value) ==
  IF value = <<>> THEN ReturnNone ELSE
  LET s0 == Strip(RemoveKm(Remove(value, "%")))
      s == IF Has(s0, ",") /\ Has(s0, ".") THEN Replace(Remove(s0, "."), ",", ".")
           ELSE IF Has(s0, ",") THEN Replace(s0, ",", ".")
           ELSE s0
  IN IF Has(s, ".")
     THEN IF FloatParses(s) THEN ReturnFloat(s) ELSE ReturnStr(value)
     ELSE IF IntParses(s) THEN ReturnInt(s) ELSE ReturnStr(value)

parse_stat_value(value) ==
  IF value = <<>> \/ value = <<"-">> THEN ReturnNone
  ELSE IF TripleLen(value) > 0 THEN ReturnDict(SubSeq(value, 1, TripleLen(value)))
  ELSE IF FractionLen(value) > 0 THEN ReturnDict(SubSeq(value, 1, FractionLen(value)))
  ELSE IF Has(value, ".") \/ Has(value, ",")
       THEN IF FloatParses(Replace(value, ",", "."))
            THEN ReturnFloat(Replace(value, ",", ".")) ELSE ReturnStr(value)
       ELSE IF IntParses(value) THEN ReturnInt(value) ELSE ReturnStr(value)

InitParse ==
  /\ pfn = "none"
  /\ ptext = <<>>
  /\ pres = ReturnNone

ParseValue(text) ==
  /\ pfn = "none"
  /\ pfn' = "parse_value"
  /\ ptext' = text
  /\ pres' = parse_value(text)
  /\ UNCHANGED nonparsevars

ParseStatValue(text) ==
  /\ pfn = "none"
  /\ pfn' = "_parse_stat_value"
  /\ ptext' = text
  /\ pres' = parse_stat_value(text)
  /\ UNCHANGED nonparsevars

CleanNumber(text) ==
  /\ pfn = "none"
  /\ pfn' = "clean_number"
  /\ ptext' = text
  /\ pres' = clean_number(text)
  /\ UNCHANGED nonparsevars

NextParse ==
  \/ \E text \in Texts : ParseValue(text)
  \/ \E text \in Texts : ParseStatValue(text)
  \/ \E text \in Texts : CleanNumber(text)

(***************************************************************************)
(* SPECIFICATIONS                                                          *)
(***************************************************************************)

Init == InitDb /\ InitJobs /\ InitScrape /\ InitTx /\ InitBatch /\ InitMerge /\ InitCf /\ InitParse

SpecParse == Init /\ [][NextParse]_vars

SpecCf == Init /\ [][NextCf]_vars

SpecMerge == Init /\ [][NextMerge]_vars

SpecBatch == Init /\ [][NextBatch]_vars

SpecTx == Init /\ [][NextTx]_vars

SpecScrape == Init /\ [][NextScrape]_vars

\* how many process deaths NextJobs follows
MaxJobsCrashes == 2

NextJobs ==
  \/ \E p \in Procs : EnsureWorkerStarted(p)
  \/ \E p \in Procs : RecoverScan(p)
  \/ \E p \in Procs : RecoverApply(p)
  \/ \E p \in Procs, j \in SoloJobIds, body \in Bodies : SubmitSave(p, j, body)
  \/ \E p \in Procs : SubmitPush(p)
  \/ \E p \in Procs : WorkerPop(p)
  \/ \E p \in Procs : WorkerDone(p)
  \/ \E p \in Procs : WorkerRaise(p)
  \/ \E p \in Procs : WorkerRequeue(p)
  \/ \E p \in Procs : crashes < MaxJobsCrashes /\ Crash(p)
  \/ LockExpire

SpecJobs == Init /\ [][NextJobs]_vars

\* one job through repeated process deaths and start-up recoveries, its
\* execution never raising
NextRecover ==
  \/ \E p \in Procs : EnsureWorkerStarted(p)
  \/ \E p \in Procs : RecoverScan(p)
  \/ \E p \in Procs : RecoverApply(p)
  \/ \E p \in Procs, j \in SoloJobIds, body \in Bodies : SubmitSave(p, j, body)
  \/ \E p \in Procs : SubmitPush(p)
  \/ \E p \in Procs : WorkerPop(p)
  \/ \E p \in Procs : WorkerDone(p)
  \/ \E p \in Procs : Crash(p)
  \/ LockExpire

SpecRecover == Init /\ [][NextRecover]_vars

\* two processes start while the lock's TTL has not elapsed and nobody dies
NextRace ==
  \/ \E p \in Procs : EnsureWorkerStarted(p)
  \/ \E p \in Procs : RecoverScan(p)
  \/ \E p \in Procs : RecoverApply(p)
  \/ \E p \in Procs, j \in SoloJobIds, body \in Bodies : SubmitSave(p, j, body)
  \/ \E p \in Procs : SubmitPush(p)
  \/ \E p \in Procs : WorkerPop(p)
  \/ \E p \in Procs : WorkerDone(p)
  \/ \E p \in Procs : WorkerRaise(p)
  \/ \E p \in Procs : WorkerRequeue(p)

SpecRace == Init /\ [][NextRace]_vars

\* the retries that the workers have made or are about to make
RECURSIVE SumRetried(_)
SumRetried(ids) ==
  IF ids = {} THEN 0
  ELSE LET j == CHOOSE k \in ids : TRUE IN retried[j] + SumRetried(ids \ {j})

QueueRetries == SumRetried(JobIds) + Cardinality({p \in Procs : wpc[p] = "backoff"})

\* several jobs in the queue, with few process deaths and retries
NextQueue ==
  \/ \E p \in Procs : EnsureWorkerStarted(p)
  \/ \E p \in Procs : RecoverScan(p)
  \/ \E p \in Procs : RecoverApply(p)
  \/ \E p \in Procs, j \in JobIds, body \in Bodies : SubmitSave(p, j, body)
  \/ \E p \in Procs : SubmitPush(p)
  \/ \E p \in Procs : WorkerPop(p)
  \/ \E p \in Procs : WorkerDone(p)
  \/ \E p \in Procs, j \in JobIds : CancelJob(p, j)
  \/ \E p \in Procs : QueueRetries < MaxQueueRetries /\ WorkerRaise(p)
  \/ \E p \in Procs : WorkerRequeue(p)
  \/ \E p \in Procs : crashes < MaxQueueCrashes /\ Crash(p)
  \/ LockExpire

SpecQueue == Init /\ [][NextQueue]_vars

\* how many process deaths a behaviour has in which time passes and every
\* thread keeps running
MaxLiveCrashes == 1

\* one job, process deaths, expiry of the lock
NextLive ==
  \/ \E p \in Procs : EnsureWorkerStarted(p)
  \/ \E p \in Procs : RecoverScan(p)
  \/ \E p \in Procs : RecoverApply(p)
  \/ \E p \in Procs, j \in SoloJobIds, body \in Bodies : SubmitSave(p, j, body)
  \/ \E p \in Procs : SubmitPush(p)
  \/ \E p \in Procs : WorkerPop(p)
  \/ \E p \in Procs : WorkerDone(p)
  \/ \E p \in Procs : WorkerRaise(p)
  \/ \E p \in Procs : WorkerRequeue(p)
  \/ \E p \in Procs : crashes < MaxLiveCrashes /\ Crash(p)
  \/ LockExpire

\* every process keeps receiving requests and every request handler and worker
\* thread keeps running; the lock's TTL elapses; nothing forces a process to
\* die or a client to submit
LiveFairness ==
  /\ \A p \in Procs :
        /\ WF_vars(EnsureWorkerStarted(p))
        /\ WF_vars(RecoverScan(p))
        /\ WF_vars(RecoverApply(p))
        /\ WF_vars(SubmitPush(p))
        /\ WF_vars(WorkerPop(p))
        /\ WF_vars(WorkerDone(p))
        /\ WF_vars(WorkerRequeue(p))
  /\ WF_vars(LockExpire)

SpecLive == Init /\ [][NextLive]_vars /\ LiveFairness

\* submissions, accepted and rejected, while the processes start and a worker
\* runs; nothing fails
NextSubmit ==
  \/ \E p \in Procs : EnsureWorkerStarted(p)
  \/ \E p \in Procs : RecoverScan(p)
  \/ \E p \in Procs : RecoverApply(p)
  \/ \E p \in Procs, j \in JobIds, body \in Bodies : SubmitSave(p, j, body)
  \/ \E p \in Procs, body \in Bodies : SubmitReject(p, body)
  \/ \E p \in Procs : SubmitPush(p)
  \/ \E p \in Procs : WorkerPop(p)
  \/ \E p \in Procs : WorkerDone(p)

SpecSubmit == Init /\ [][NextSubmit]_vars

\* submissions, also two of one (league, year, round) within one second,
\* while the processes start, a worker runs and jobs are retried
NextSameSecond ==
  \/ \E p \in Procs : EnsureWorkerStarted(p)
  \/ \E p \in Procs : RecoverScan(p)
  \/ \E p \in Procs : RecoverApply(p)
  \/ \E p \in Procs, j \in SoloJobIds, body \in Bodies : SubmitSave(p, j, body)
  \/ \E p \in Procs, j \in SoloJobIds, body \in Bodies : SubmitSaveAgain(p, j, body)
  \/ \E p \in Procs : SubmitPush(p)
  \/ \E p \in Procs : WorkerPop(p)
  \/ \E p \in Procs : WorkerDone(p)
  \/ \E p \in Procs : QueueRetries < MaxQueueRetries /\ WorkerRaise(p)
  \/ \E p \in Procs : WorkerRequeue(p)

SpecSameSecond == Init /\ [][NextSameSecond]_vars

\* no process dies and the lock does not expire; the broker may fail under any
\* single command of a submission or of the worker loop
NextBrokerErrors ==
  \/ \E p \in Procs : EnsureWorkerStarted(p)
  \/ \E p \in Procs : RecoverScan(p)
  \/ \E p \in Procs : RecoverApply(p)
  \/ \E p \in Procs, j \in SoloJobIds, body \in Bodies : SubmitSave(p, j, body)
  \/ \E p \in Procs : SubmitPush(p)
  \/ \E p \in Procs : SubmitPushError(p)
  \/ \E p \in Procs : WorkerPop(p)
  \/ \E p \in Procs : WorkerPopError(p)
  \/ \E p \in Procs : WorkerDone(p)
  \/ \E p \in Procs : WorkerDoneSaveError(p)
  \/ \E p \in Procs : WorkerRaise(p)
  \/ \E p \in Procs : WorkerRequeue(p)
  \/ \E p \in Procs : WorkerRequeueError(p)

SpecBrokerErrors == Init /\ [][NextBrokerErrors]_vars

NextDb == ProcessInput

SpecDb == Init /\ [][NextDb]_vars

(***************************************************************************)
(* Properties of the persistence layer                                     *)
(***************************************************************************)

\* the call process_input(in) is well-formed: required fields, seeded league
ValidInput(in) == validate_json(in[1]) /\ in[2] \in KnownLeagues

\* the stored rows of the match that the call in is about
RowsOfInput(store, in) ==
  {r \in store.partidas :
     KeyOf(r) = PartidaKey(<<in[2], in[3]>>, in[1], in[1].home_team, in[1].away_team)}

RowsOfUrl(store, url) == {r \in store.partidas : r.url_fonte = url}

\* C1 (as claimed): the store holds at most one match row per source URL, and
\* a process_input for a URL that is already stored succeeds as an update of
\* that row: it does not fail and it adds no row.
C1_OneRowPerUrlUpdated ==
  /\ \A u \in Urls : Cardinality(RowsOfUrl(db, u)) <= 1
  /\ \A in \in Inputs :
       (ValidInput(in) /\ RowsOfUrl(db, in[1].url_fonte) # {}) =>
         LET r == process_input(db, in[1], in[2], in[3], "none")
         IN /\ r.ok
            /\ Cardinality(r.db.partidas) = Cardinality(db.partidas)

\* C2: when a stored match is submitted again, the call succeeds, the match
\* still has exactly one row, and its extension map holds every key of the
\* new record with the new value and every other key it held with the old one.
C2_MetadataMerged ==
  \A in \in Inputs : \A old \in RowsOfInput(db, in) :
    ValidInput(in) =>
      LET r == process_input(db, in[1], in[2], in[3], "none")
          new == RowsOfInput(r.db, in)
      IN /\ r.ok
         /\ Cardinality(new) = 1
         /\ \A n \in new : \A k \in MetaKeys :
              /\ in[1][k] # Absent => n.metadata[k] = in[1][k]
              /\ in[1][k] = Absent => n.metadata[k] = old.metadata[k]

\* C2 witness: a row that went through a merge: its score column was reset by
\* a submission without score while the map still holds the score and the xG
\* of earlier submissions.
C2_Witness ==
  /\ call = "true"
  /\ \E r \in db.partidas :
       r.metadata["home_score"] = "2" /\ r.metadata["xg_home"] = "1.8" /\ r.gols_casa = "0"

\* C3: a process_input that returned failure left the store exactly as it was
\* before the call.
C3_FailedCallLeavesStore == call = "false" => db = pre

\* C3 witness: a call failed on a store that already holds a match with
\* events, statistics and a lineup, and they are all still there.
C3_Witness ==
  /\ call = "false"
  /\ db.partidas # {} /\ db.eventos # <<>> /\ db.estatisticas # {} /\ db.escalacoes # {}

\* C4 (as claimed): a value that the stored match, its statistics row or a
\* lineup entry holds is unchanged by a later process_input of the same match
\* whose record lacks that field.
C4_NoDestructiveOverwrite ==
  \A in \in Inputs : \A old \in RowsOfInput(db, in) :
    ValidInput(in) =>
      LET data == in[1]
          r == process_input(db, data, in[2], in[3], "none")
          pid == KeyOf(old)
      IN /\ data.home_score = Absent =>
              \A n \in RowsOfInput(r.db, in) : n.gols_casa = old.gols_casa
         /\ (data.stats_home = Missing \/ ValueOf(data.stats_home).posse = Absent) =>
              \A s \in db.estatisticas : (s.partida = pid /\ s.posse_casa # Null) =>
                 \E t \in r.db.estatisticas : t.partida = pid /\ t.posse_casa = s.posse_casa
         /\ \A e \in db.escalacoes : (e.partida = pid /\ e.nota # Null) =>
              ((data.escalacao_casa = Missing
                 \/ \A i \in DOMAIN ValueOf(data.escalacao_casa).titulares :
                      LET pl == ValueOf(data.escalacao_casa).titulares[i]
                      IN pl.nome = e.jogador => pl.rating = Absent)
               => \E f \in r.db.escalacoes :
                    f.partida = pid /\ f.jogador = e.jogador /\ f.nota = e.nota)

\* the event rows that a submission's event list stands for: one row per
\* event of a recognised type, in order
RecognisedEvents(pid, eventos) ==
  LET sel == SelectSeq(eventos, LAMBDA e : tipo_map(e.tipo) # Absent)
  IN [i \in DOMAIN sel |->
        [partida |-> pid, tipo |-> tipo_map(sel[i].tipo), jogador |-> sel[i].jogador]]

EventsOfMatch(store, pid) == SelectSeq(store.eventos, LAMBDA e : e.partida = pid)

\* C16 (as claimed): after a successful process_input the events stored for
\* the match are exactly the recognised events of that submission (none when
\* the submission carries none), whatever was stored before.
C16_EventsReplaced ==
  \A in \in Inputs :
    ValidInput(in) =>
      LET r == process_input(db, in[1], in[2], in[3], "none")
          pid == PartidaKey(<<in[2], in[3]>>, in[1], in[1].home_team, in[1].away_team)
      IN r.ok =>
           EventsOfMatch(r.db, pid) =
             (IF in[1].eventos = Missing THEN <<>>
              ELSE RecognisedEvents(pid, ValueOf(in[1].eventos)))

\* C18: when process_input is run again for a record, after a first call that
\* was interrupted at any point or that completed, the store is the one that a
\* single complete call leaves: same match, statistics, event and lineup
\* rows, no row added by the second call.
C18_SafeReentry ==
  \A in \in Inputs :
    ValidInput(in) =>
      LET once == process_input(db, in[1], in[2], in[3], "none")
      IN once.ok =>
           \A failAt \in FailPoints :
             LET first == process_input(db, in[1], in[2], in[3], failAt)
                 again == process_input(first.db, in[1], in[2], in[3], "none")
             IN again.ok /\ again.db = once.db

\* C18 witness: a call completed on a store that now holds a match with its
\* statistics, an event and a lineup entry, so a further call for that record
\* is a re-run.
C18_Witness ==
  /\ call = "true"
  /\ \E r \in db.partidas :
       /\ r.url_fonte = "u1"
       /\ \E e \in db.estatisticas : e.partida = KeyOf(r)
       /\ \E x \in db.escalacoes : x.partida = KeyOf(r)
       /\ EventsOfMatch(db, KeyOf(r)) # <<>>

\* records of two different matches of one round that share their team and
\* player names: A x B scraped from page u1 and B x A scraped from page u2
FirstLegRecords ==
  [home_team : {"A"}, away_team : {"B"}, rodada : {"1"},
   home_score : Scores, xg_home : {Absent},
   url_fonte : {"u1"}, stats_home : {Missing}, eventos : EventInputs,
   escalacao_casa : LineupInputs]

SecondLegRecords ==
  [home_team : {"B"}, away_team : {"A"}, rodada : {"1"},
   home_score : Scores, xg_home : {Absent},
   url_fonte : {"u2"}, stats_home : {Missing}, eventos : EventInputs,
   escalacao_casa : LineupInputs]

\* two stores hold the same rows; event rows are compared match by match,
\* since their position in the table is only the order of their serial ids
SameUpToIds(s, t) ==
  /\ \A f \in {"seasons", "times", "jogadores", "partidas", "estatisticas", "escalacoes"} :
        s[f] = t[f]
  /\ \A r \in s.partidas \cup t.partidas :
        SelectSeq(s.eventos, LAMBDA e : e.partida = KeyOf(r))
          = SelectSeq(t.eventos, LAMBDA e : e.partida = KeyOf(r))

\* the store after process_input(first) and then process_input(second)
ImportBoth(store, first, second) ==
  process_input(process_input(store, first, "brasileirao", 2026, "none").db,
                second, "brasileirao", 2026, "none").db

\* C19: on every store, importing the records of two different matches in
\* either order leaves the same rows (up to surrogate ids), also when the two
\* records share team and player names
C19_DistinctMatchesCommute ==
  \A a \in FirstLegRecords, b \in SecondLegRecords :
    SameUpToIds(ImportBoth(db, a, b), ImportBoth(db, b, a))

(***************************************************************************)
(* Properties of the job queue and worker supervisor                       *)
(***************************************************************************)

\* how often job id j occurs in a list of job_data
RECURSIVE Occurrences(_, _)
Occurrences(list, j) ==
  IF list = <<>> THEN 0
  ELSE (IF Head(list).job_id = j THEN 1 ELSE 0) + Occurrences(Tail(list), j)

TerminalStatus == {"completed", "failed", "cancelled"}

\* the status changes of the state machine of section 4.3
AllowedStatusChange ==
  {<<"absent", "queued">>, <<"queued", "processing">>, <<"processing", "queued">>,
   <<"processing", "completed">>, <<"processing", "failed">>, <<"processing", "cancelled">>}

\* C5 (as claimed): every change of a job's status is a step of the state
\* machine queued -> processing -> {completed, failed, cancelled}, with
\* processing -> queued on retry or recovery; a terminal status never changes.
C5_StatusMachine ==
  [][\A j \in JobIds :
       jobs'[j].status # jobs[j].status =>
         <<jobs[j].status, jobs'[j].status>> \in AllowedStatusChange]_vars

\* the processes that have a worker thread
Workers == {p \in Procs : wpc[p] # "off"}

\* C6 (as claimed): of two processes that call start_worker against the same
\* broker at most one gets a worker thread, and once both calls have returned
\* exactly one has.
C6_ExactlyOneWorker ==
  /\ Cardinality(Workers) <= 1
  /\ (\A p \in Procs : init_done[p] /\ startpc[p] = "idle") => Cardinality(Workers) = 1

\* C7 (as claimed): startup recovery re-enqueues a job at most
\* MAX_RECOVERY_ATTEMPTS times over the job's life.
C7_RecoveryBounded == \A j \in JobIds : recovered[j] <= MAX_RECOVERY_ATTEMPTS

\* C8 (as claimed): when recover_stuck_jobs finishes, every job that it read
\* as processing or queued and absent from the queue, and that is under the
\* recovery bound, is in the queue exactly once with status queued and its
\* recovery_count one higher; a job that it read as enqueued or terminal keeps
\* its metadata and its queue entries.
C8_RecoveryPostcondition ==
  [][\A p \in Procs :
       RecoverApply(p) =>
         \A j \in JobIds :
           LET was == snap[p].jobs[j]
               stuck == was.status \in {"processing", "queued"} /\ j \notin snap[p].enqueued
           IN /\ (stuck /\ was.recovery_count < MAX_RECOVERY_ATTEMPTS) =>
                   /\ Occurrences(queue', j) = 1
                   /\ jobs'[j].status = "queued"
                   /\ jobs'[j].recovery_count = was.recovery_count + 1
              /\ ~stuck =>
                   /\ jobs'[j] = jobs[j]
                   /\ Occurrences(queue', j) = Occurrences(queue, j)]_vars

\* C9 (as claimed): the worker re-enqueues a job for a retry at most
\* MAX_RETRIES times.
C9_RetryBounded == \A j \in JobIds : retried[j] <= MAX_RETRIES

\* C11 (as claimed): jobs start in the order in which they were put on the
\* queue: the worker takes the head of the queue, and an enqueue (submission,
\* retry or recovery) never puts a job ahead of another job that is waiting.
C11_Fifo ==
  [][/\ \A p \in Procs : WorkerPop(p) => wjob'[p].job_id = Head(queue).job_id
     /\ (Len(queue') > Len(queue) /\ queue # <<>>) =>
           (Head(queue') = Head(queue) \/ Head(queue').job_id = Head(queue).job_id)]_vars

InFlight(j) == jobs[j].status \in {"queued", "processing"}

\* C12 (as claimed): a submission creates job metadata only when no job of the
\* same (league, year, round) is queued or processing, so at most one job per
\* triple is in flight.
C12_NoDuplicateInFlight ==
  [][\A p \in Procs : \A j \in JobIds :
       (\E body \in Bodies : SubmitSave(p, j, body)) =>
         ~ \E k \in JobIds : k # j /\ TripleOf(k) = TripleOf(j) /\ InFlight(k)]_vars

\* C13 (as claimed): a cancel request marks a job that waits in the queue as
\* cancelled; the worker that reaches a cancelled job does not execute it and
\* leaves it cancelled; a cancel request for a running job does not stop the
\* run.
C13_CancelAtJobBoundary ==
  [][/\ \A p \in Procs : \A j \in JobIds :
          (CancelJob(p, j) /\ jobs[j].status = "queued") => jobs'[j].status = "cancelled"
     /\ \A p \in Procs :
          (WorkerPop(p) /\ jobs[Head(queue).job_id].status = "cancelled") =>
             (wpc'[p] = "idle" /\ jobs' = jobs)
     /\ \A p, q \in Procs : \A j \in JobIds :
          (CancelJob(p, j) /\ wpc[q] = "exec" /\ wjob[q].job_id = j) =>
             (wpc'[q] = "exec" /\ wjob'[q] = wjob[q])]_vars

LacksFieldOrLeague(body) ==
  body.league = Absent \/ body.year = 0 \/ body.round = 0 \/ body.league \notin KnownLeagues

C27_SingleWorkerAfterTtl ==
  /\ [](Cardinality(Workers) <= 1)
  /\ [](\A p, q \in Procs :
          (p # q /\ wpc[p] # "off" /\ wpc[q] # "off" /\ wjob[p] # NoJob)
            => wjob[p].job_id # wjob[q].job_id)
  /\ [][\A p \in Procs : RecoverApply(p) =>
          \A j \in JobIds : recovered'[j] > recovered[j] =>
            ~ \E q \in Procs : wpc[q] = "exec" /\ wjob[q].job_id = j]_vars

\* C28 (as claimed): a job that is queued or processing eventually reaches
\* completed or failed, also when the process that owns the worker lock has
\* died: some live process then acquires the lock, recovers and works
C28_EventuallyTerminal ==
  \A j \in SoloJobIds :
    (jobs[j].status \in {"queued", "processing"}) ~> (jobs[j].status \in {"completed", "failed"})

\* C29 (as claimed): each job id occurs at most once in the queue, and each
\* accepted submission gets a job id that no earlier submission got, with a
\* metadata entry of its own
C29_UniqueQueueEntries ==
  /\ [](\A j \in JobIds : Occurrences(queue, j) <= 1)
  /\ [][\A p \in Procs : \A j \in JobIds :
          (\E body \in Bodies : SubmitSave(p, j, body) \/ SubmitSaveAgain(p, j, body))
            => jobs[j] = NoJob]_vars

\* a worker thread of some process holds job j: it executes it or waits in
\* the back-off of its retry
HeldByWorker(j) ==
  \E p \in Procs : wpc[p] \in {"exec", "backoff"} /\ wjob[p].job_id = j

\* a submission saved job j and has not yet finished its request
BeingSubmitted(j) == \E p \in Procs : req[p].job_id = j

\* C30 (as claimed): while a worker thread lives, every job whose metadata is
\* queued or processing is in the queue, held by the worker, or about to be
\* pushed by its submission
C30_NoOrphanedJob ==
  (\E p \in Procs : wpc[p] # "off") =>
    \A j \in JobIds :
      InFlight(j) =>
        \/ Occurrences(queue, j) > 0
        \/ HeldByWorker(j)
        \/ BeingSubmitted(j)

\* C14 (as claimed): start_worker goes on to the recovery scan and the worker
\* thread only when its SET NX returned OK; when the SET raises, the process
\* runs no recovery and gets no worker thread.
C14_DeclineOnLockError ==
  [][\A p \in Procs :
       EnsureWorkerStarted(p) => (startpc'[p] = "scan" => (lock = "free" /\ lock' = p))]_vars

\* C15 (as claimed): whatever the interleaving of concurrent process_input
\* transactions, each name-keyed table holds at most one committed row per
\* display name, and a transaction that has committed obtained the id of that
\* row from each of its get-or-create calls.
C15_OneRowPerName ==
  \A k \in Kinds :
    /\ \A n \in RefNames : Cardinality({r \in rows[k] : r.nome = n}) <= 1
    /\ \A c \in Conns :
         tpc[c] = "done" => [id |-> got[c][k], nome |-> tname[c][k]] \in rows[k]

(***************************************************************************)
(* Properties of the batch run                                             *)
(***************************************************************************)

C10_ThreeAttemptsThenError ==
  (spc = "end" /\ fault \in {"timeout", "invalid"}) =>
     (attempts = 3 /\ sret \notin {"data", "None"})

(***************************************************************************)
(* Properties of the reconciliation                                        *)
(***************************************************************************)

\* C20: no step of merge_player_data changes a field that a lineup entry
\* already holds, whether the entry came with it or an earlier step of the
\* merge set it; the facets only fill keys the entry does not have
C20_NeverOverwrites ==
  [][\A i \in DOMAIN Positions(mdata) : \A f \in PlayerKeys :
       LET pos == Positions(mdata)[i] IN
       PlayerAt(mdata, pos)[f] # Absent => PlayerAt(mdata', pos)[f] = PlayerAt(mdata, pos)[f]]_vars

\* the merge has visited a player who kept a rating and a defence block that
\* both facets also offer, and received the fields he did not have
C20_Witness ==
  /\ mpc = "remove"
  /\ mdata.escalacao_casa # Missing
  /\ LET player == ValueOf(mdata.escalacao_casa).titulares[1]
     IN /\ player.rating = "7.0" /\ player.defesa = "d1"
        /\ player.rating_qualidade = "bom" /\ player.passe = "p2"
        /\ player.player_id = "11"
        /\ mdata.ratings_home # Missing /\ ValueOf(mdata.ratings_home)[1].rating = "6.0"
        /\ mdata.stats_detalhadas_home # Missing
        /\ ValueOf(mdata.stats_detalhadas_home)[1].rating = "5.0"
        /\ ValueOf(mdata.stats_detalhadas_home)[1].player_id = "12"

\* two fragments reference the same player: the same numeric id when both
\* carry one, otherwise the same normalized name
SamePlayer(a, b) ==
  IF Truthy(a.player_id) /\ Truthy(b.player_id) THEN a.player_id = b.player_id
  ELSE Truthy(a.nome) /\ Truthy(b.nome) /\ normalize_name(a.nome) = normalize_name(b.nome)

\* the entries of the facet lists of one team
FragmentsOf(data, side) ==
  {ListOf(data, RatingsKey(side))[i] : i \in DOMAIN ListOf(data, RatingsKey(side))}
    \cup {ListOf(data, StatsKey(side))[i] : i \in DOMAIN ListOf(data, StatsKey(side))}

PositionSet(data) == {Positions(data)[i] : i \in DOMAIN Positions(data)}

\* C21: when the merge has visited every lineup entry, each player has exactly
\* one lineup entry, and every field for which a facet fragment of that player
\* supplies a value has a value in that entry
C21_OneEntryUnionOfFields ==
  mpc = "remove" =>
    \A pos \in PositionSet(mdata) :
      LET player == PlayerAt(mdata, pos) IN
      /\ Cardinality({q \in PositionSet(mdata) :
                        q[1] = pos[1] /\ SamePlayer(PlayerAt(mdata, q), player)}) = 1
      /\ \A frag \in FragmentsOf(mdata, pos[1]) :
           (SamePlayer(player, frag)
              /\ \A other \in FragmentsOf(mdata, pos[1]) :
                   SamePlayer(player, other) => SamePlayer(frag, other))
           => \A f \in PlayerKeys : Truthy(frag[f]) => Truthy(player[f])

\* C22: a page scrape that has ended either returned a record of a validated
\* page (match identity, score and statistics all found on a page that loaded)
\* or failed with a typed error, invalid structure distinct from timeout; it
\* never hands back a partial or empty record, or None, as its result
C22_ValidatedOrTypedError ==
  spc = "end" =>
    /\ sret \in {"data", "TimeoutError", "InvalidDOMError"}
    /\ sret = "data" => (fault = "ok" /\ {"home_team", "home_score", "stats_home"} \subseteq sdata)
    /\ fault = "timeout" => sret = "TimeoutError"
    /\ fault = "invalid" => sret = "InvalidDOMError"

(***************************************************************************)
(* Properties of the challenge wait                                        *)
(***************************************************************************)

\* C23: navigate_with_cf_wait ends either by returning or with InvalidDOMError;
\* it raises InvalidDOMError exactly when the deadline elapsed with the markers
\* still present (or the page unreadable) and the structural element absent;
\* when the first check finds no marker the wait ends at once
C23_BoundedConditionalEscalation ==
  /\ cfclock <= CfPolls
  /\ cfpc = "end" =>
       /\ cfout \in {"returned", "InvalidDOMError"}
       /\ cfout = "InvalidDOMError" <=>
            (cfclock >= CfPolls /\ is_cloudflare_challenge(cfpage) /\ ~cffixture)
       /\ cfseen # <<>> /\ cfseen[1] = "clear" => (Len(cfseen) = 1 /\ cfout = "returned")

(***************************************************************************)
(* Properties of the value parsers                                         *)
(***************************************************************************)

\* the characters of a text that carry its value: without the percent sign,
\* the unit and the blanks, the decimal comma written as a point
Significant(t) == Replace(Remove(RemoveKm(Remove(t, "%")), " "), ",", ".")

\* C24: each value parser returns None, or a number or an X/Y (Z%) dict read
\* from the whole text; it never returns a string, and never a number or dict
\* read from only a part of the text
C24_UnparseableIsNull ==
  pfn # "none" =>
    /\ pres.kind \in {"None", "int", "float", "dict"}
    /\ pres.kind # "None" => Significant(pres.src) = Significant(ptext)

====
